---------------------------- MODULE Spec2Model ----------------------------
(***************************************************************************)
(* Runtime helpers of dataloader-codegen (src/src/runtimeHelpers.ts):      *)
(* partitionItems, sortByKeys, unPartitionResults and resultsDictToList.   *)
(*                                                                         *)
(* The helpers are pure functions.  The state of the model is the latest   *)
(* invocation (`call`: the function and its arguments) and what it         *)
(* produced (`ret`).  JavaScript values are tagged records, so that the    *)
(* number 1 and the string "1" are different values which String()         *)
(* converts to the same string.                                            *)
(***************************************************************************)
EXTENDS Integers, Sequences, FiniteSets, TLC

VARIABLES call, ret

vars == <<call, ret>>

(***************************************************************************)
(* Bounds of the model.                                                    *)
(***************************************************************************)
\* longest batch handed to partitionItems
MaxBatch == 3
\* longest `items` list handed to sortByKeys
MaxItems == 2
\* longest `keys` list handed to sortByKeys and resultsDictToList
MaxKeys == 2
\* most entries of a dictionary handed to resultsDictToList
MaxDict == 2

(***************************************************************************)
(* JavaScript values.                                                      *)
(***************************************************************************)
Undefined == [type |-> "undefined"]

Null == [type |-> "null"]

Num(n) == [type |-> "number", num |-> n]

Str(s) == [type |-> "string", str |-> s]

Bool(b) == [type |-> "boolean", bool |-> b]

\* an object literal: its own enumerable properties, in declaration order,
\* as <<name, value>> pairs with distinct names
Obj(props) == [type |-> "object", props |-> props]

\* an Error that is neither of the two classes of this file
PlainError(message) == [type |-> "Error", message |-> message]

Range(s) == {s[i] : i \in DOMAIN s}

SeqsUpTo(S, n) == UNION {[1..m -> S] : m \in 0..n}

Digit == <<"0", "1", "2", "3", "4", "5", "6", "7", "8", "9">>

RECURSIVE NumToString(_)
NumToString(n) ==
    IF n < 10 THEN Digit[n + 1]
    ELSE NumToString(n \div 10) \o Digit[(n % 10) + 1]

\* String(v)
String(v) ==
    CASE v.type = "number" -> NumToString(v.num)
      [] v.type = "string" -> v.str
      [] v.type = "boolean" -> (IF v.bool THEN "true" ELSE "false")
      [] v.type = "null" -> "null"
      [] v.type = "undefined" -> "undefined"
      [] OTHER -> "[object Object]"

\* the truthiness `a || b` tests
Truthy(v) ==
    CASE v.type \in {"undefined", "null"} -> FALSE
      [] v.type = "number" -> v.num # 0
      [] v.type = "string" -> v.str # ""
      [] v.type = "boolean" -> v.bool
      [] OTHER -> TRUE

\* a || b
Or(a, b) == IF Truthy(a) THEN a ELSE b

\* v != null
NotNullish(v) == v.type \notin {"undefined", "null"}

\* typeof v
TypeOf(v) ==
    IF v.type \in {"undefined", "number", "string", "boolean"} THEN v.type
    ELSE "object"

\* item[prop] on an object literal: the property's value, undefined when the
\* object has no such property
Get(item, prop) ==
    IF item.type = "object" /\ \E i \in DOMAIN item.props : item.props[i][1] = prop
    THEN item.props[CHOOSE i \in DOMAIN item.props : item.props[i][1] = prop][2]
    ELSE Undefined

RECURSIVE Join(_, _)
\* resourcePath.join(sep)
Join(parts, sep) ==
    IF parts = <<>> THEN ""
    ELSE IF Len(parts) = 1 THEN parts[1]
    ELSE parts[1] \o sep \o Join(Tail(parts), sep)

errorPrefix(resourcePath) ==
    "[dataloader-codegen :: " \o Join(resourcePath, ".") \o "]"

BatchItemNotFoundError(message) ==
    [type |-> "BatchItemNotFoundError", message |-> message,
     code |-> "BATCH_ITEM_NOT_FOUND_ERROR"]

CaughtResourceError(message, cause, reorderResultsByValue) ==
    [type |-> "CaughtResourceError", message |-> message,
     code |-> "CAUGHT_RESOURCE_ERROR", cause |-> cause,
     reorderResultsByValue |-> reorderResultsByValue]

\* _.isError(item)
IsError(item) ==
    item.type \in {"Error", "BatchItemNotFoundError", "CaughtResourceError"}

\* item instanceof CaughtResourceError
IsCaughtResourceError(item) == item.type = "CaughtResourceError"

(***************************************************************************)
(* partitionItems                                                          *)
(***************************************************************************)
\* _.omit(item, ignoreKey): a copy of the object without the property
omit(item, ignoreKey) ==
    Obj(SelectSeq(item.props, LAMBDA p : p[1] # ignoreKey))

\* the attribute names of the model in the order Array.prototype.sort gives
\* them (UTF-16 code unit order)
SortedNames == <<"bar_id", "id", "include_extra_info", "locale", "name">>

NameRank(name) == CHOOSE i \in DOMAIN SortedNames : SortedNames[i] = name

RECURSIVE InsertByName(_, _)
InsertByName(sorted, p) ==
    IF sorted = <<>> THEN <<p>>
    ELSE IF NameRank(p[1]) < NameRank(sorted[1][1]) THEN <<p>> \o sorted
    ELSE <<sorted[1]>> \o InsertByName(Tail(sorted), p)

RECURSIVE SortProps(_)
SortProps(props) ==
    IF props = <<>> THEN <<>>
    ELSE InsertByName(SortProps(SubSeq(props, 1, Len(props) - 1)), props[Len(props)])

\* objectHash with a fault: the keys are written in declaration order
objectHashOrdered(obj) == <<"object", Len(obj.props), obj.props>>

\* objectHash(obj, { algorithm: 'passthrough' }): the serialization of the
\* object with its keys sorted, each value written with its type.  The model
\* keeps the serialization as the sorted list of <<name, value>> pairs.
objectHash(obj) == <<"object", Len(obj.props), SortProps(obj.props)>>

\* PushIndex with a fault: groups[hash] = [] replaces the group found
PushIndexReset(groups, hash, i) ==
    IF \E g \in DOMAIN groups : groups[g][1] = hash
    THEN LET g == CHOOSE g \in DOMAIN groups : groups[g][1] = hash
         IN  [groups EXCEPT ![g] = <<hash, <<i>>>>]
    ELSE Append(groups, <<hash, <<i>>>>)

\* PushIndex with a fault: unshift(i) for push(i)
PushIndexFront(groups, hash, i) ==
    IF \E g \in DOMAIN groups : groups[g][1] = hash
    THEN LET g == CHOOSE g \in DOMAIN groups : groups[g][1] = hash
         IN  [groups EXCEPT ![g] = <<hash, <<i>> \o groups[g][2]>>]
    ELSE Append(groups, <<hash, <<i>>>>)

\* groups[hash] = groups[hash] || []; groups[hash].push(i), on `groups` kept
\* as the list of its <<hash, indices>> entries in insertion order
PushIndex(groups, hash, i) ==
    IF \E g \in DOMAIN groups : groups[g][1] = hash
    THEN LET g == CHOOSE g \in DOMAIN groups : groups[g][1] = hash
         IN  [groups EXCEPT ![g] = <<hash, Append(groups[g][2], i)>>]
    ELSE Append(groups, <<hash, <<i>>>>)

RECURSIVE PartitionLoop(_, _, _, _)
\* items.forEach((item, i) => ...) from index i on (0-based, as in the code)
PartitionLoop(ignoreKey, items, i, groups) ==
    IF i >= Len(items) THEN groups
    ELSE PartitionLoop(ignoreKey, items, i + 1,
                       PushIndex(groups, objectHash(omit(items[i + 1], ignoreKey)), i))

RECURSIVE ObjectValues(_)
\* Object.values(groups): every hash starts with "object:", so no key is an
\* array index and the values come in insertion order
ObjectValues(groups) ==
    IF groups = <<>> THEN <<>>
    ELSE <<groups[1][2]>> \o ObjectValues(Tail(groups))

partitionItems(ignoreKey, items) ==
    ObjectValues(PartitionLoop(ignoreKey, items, 0, <<>>))

(***************************************************************************)
(* Inputs.                                                                 *)
(***************************************************************************)
IgnoreKeys == {"bar_id", "include_extra_info"}

\* the objects passed to .load()
BatchItems ==
    { Obj(<< <<"bar_id", Num(2)>>, <<"include_extra_info", Bool(TRUE)>>,
             <<"locale", Str("en")>> >>),
      Obj(<< <<"locale", Str("en")>>, <<"include_extra_info", Bool(TRUE)>>,
             <<"bar_id", Num(3)>> >>),
      Obj(<< <<"bar_id", Num(2)>>, <<"include_extra_info", Bool(FALSE)>> >>),
      Obj(<< <<"bar_id", Str("2")>>, <<"locale", Str("en")>>,
             <<"include_extra_info", Bool(TRUE)>> >>),
      Obj(<< <<"include_extra_info", Bool(TRUE)>>, <<"locale", Str("en")>> >>) }

Batches == SeqsUpTo(BatchItems, MaxBatch)

(***************************************************************************)
(* sortByKeys                                                              *)
(***************************************************************************)
\* what a call produced: the value it returned, or the error it threw
Returned(value) == [status |-> "returned", value |-> value]

Threw(error) == [status |-> "threw", error |-> error]

\* partitionItems returned groups of indices
ReturnedGroups(groups) == [status |-> "returned", groups |-> groups]

\* invariant(cond, message) of 'assert' throws this when cond is false
AssertionError(message) == [type |-> "AssertionError", message |-> message]

AggregateError(errors) == [type |-> "AggregateError", errors |-> errors]

\* new Map()
EmptyMap == [k \in {} |-> Undefined]

\* MapSet with a fault: a key already set keeps its value
MapSetKeepFirst(itemsMap, key, value) ==
    [k \in DOMAIN itemsMap \cup {key} |->
        IF k \in DOMAIN itemsMap THEN itemsMap[k] ELSE value]

\* itemsMap.set(key, value)
MapSet(itemsMap, key, value) ==
    [k \in DOMAIN itemsMap \cup {key} |-> IF k = key THEN value ELSE itemsMap[k]]

\* itemsMap.get(key)
MapGet(itemsMap, key) ==
    IF key \in DOMAIN itemsMap THEN itemsMap[key] ELSE Undefined

\* IndexItem with a fault: no check that the item has the property
IndexItemNoPropCheck(itemsMap, item, prop, resourcePath) ==
    IF ~NotNullish(item)
    THEN Threw(AssertionError(errorPrefix(resourcePath)
               \o " Cannot sort list of items containing an falsey element"))
    ELSE IF IsError(item)
    THEN IF ~IsCaughtResourceError(item)
         THEN Threw(AggregateError(<<PlainError(errorPrefix(resourcePath)), item>>))
         ELSE IF TypeOf(item.reorderResultsByValue) # "string"
                 /\ TypeOf(item.reorderResultsByValue) # "number"
         THEN Threw(PlainError(errorPrefix(resourcePath)))
         ELSE Returned(MapSet(itemsMap, String(item.reorderResultsByValue), item))
    ELSE Returned(MapSet(itemsMap, String(Get(item, prop)), item))

\* IndexItem with a fault: a CaughtResourceError is an unknown error like any
IndexItemNoCaught(itemsMap, item, prop, resourcePath) ==
    IF ~NotNullish(item)
    THEN Threw(AssertionError(errorPrefix(resourcePath)
               \o " Cannot sort list of items containing an falsey element"))
    ELSE IF IsError(item)
    THEN Threw(AggregateError(<<PlainError(errorPrefix(resourcePath)), item>>))
    ELSE IF ~NotNullish(Get(item, prop))
    THEN Threw(AssertionError(errorPrefix(resourcePath)
               \o " Could not find property \"" \o prop \o "\" in item"))
    ELSE Returned(MapSet(itemsMap, String(Get(item, prop)), item))

\* the body of items.forEach in sortByKeys, for one item: the map after it,
\* or the error it throws
IndexItem(itemsMap, item, prop, resourcePath) ==
    IF ~NotNullish(item)
    THEN Threw(AssertionError(errorPrefix(resourcePath)
               \o " Cannot sort list of items containing an falsey element"))
    ELSE IF IsError(item)
    THEN IF ~IsCaughtResourceError(item)
         THEN Threw(AggregateError(<<
                  PlainError(errorPrefix(resourcePath)
                      \o " Cannot sort list of items containg an unknown error: "
                      \o item.message),
                  item>>))
         ELSE IF TypeOf(item.reorderResultsByValue) # "string"
                 /\ TypeOf(item.reorderResultsByValue) # "number"
         THEN Threw(PlainError(errorPrefix(resourcePath)
                  \o " Cannot sort list of items if CaughtResourceError"
                  \o " does not contain a string or number value for reorderResultsByValue"))
         ELSE Returned(MapSet(itemsMap, String(item.reorderResultsByValue), item))
    ELSE IF ~NotNullish(Get(item, prop))
    THEN Threw(AssertionError(errorPrefix(resourcePath)
               \o " Could not find property \"" \o prop \o "\" in item"))
    ELSE Returned(MapSet(itemsMap, String(Get(item, prop)), item))

RECURSIVE BuildItemsMap(_, _, _, _)
\* items.forEach(...): the first throw ends the loop and the call
BuildItemsMap(itemsMap, items, prop, resourcePath) ==
    IF items = <<>> THEN Returned(itemsMap)
    ELSE LET step == IndexItem(itemsMap, Head(items), prop, resourcePath)
         IN  IF step.status = "threw" THEN step
             ELSE BuildItemsMap(step.value, Tail(items), prop, resourcePath)

\* the BatchItemNotFoundError sortByKeys makes for a key
SortNotFound(key, prop, resourcePath) ==
    BatchItemNotFoundError(errorPrefix(resourcePath)
        \o " Response did not contain item with " \o prop \o " = " \o String(key))

\* LookupKey with a fault: nothing stands in for an item that is not found
LookupKeyNoDefault(itemsMap, key, prop, resourcePath) ==
    MapGet(itemsMap, String(key))

\* keys.map(key => itemsMap.get(String(key)) || new BatchItemNotFoundError(...))
LookupKey(itemsMap, key, prop, resourcePath) ==
    Or(MapGet(itemsMap, String(key)), SortNotFound(key, prop, resourcePath))

sortByKeys(items, keys, prop, resourcePath) ==
    LET built == BuildItemsMap(EmptyMap, items, prop, resourcePath)
    IN  IF built.status = "threw" THEN built
        ELSE Returned([i \in DOMAIN keys |->
                          LookupKey(built.value, keys[i], prop, resourcePath)])

ResourcePaths == { <<"UserService", "getUsers">> }

Props == {"id"}

BoomError == PlainError("boom")

\* what a batch endpoint's response list may hold
ResponseItems ==
    { Obj(<< <<"id", Num(1)>>, <<"name", Str("ryan")>> >>),
      Obj(<< <<"id", Str("1")>>, <<"name", Str("mark")>> >>),
      Obj(<< <<"name", Str("mark")>>, <<"id", Num(2)>> >>),
      Obj(<< <<"name", Str("ryan")>> >>),
      Obj(<< <<"id", Null>> >>),
      Null,
      BoomError,
      CaughtResourceError("caught", BoomError, Num(1)),
      CaughtResourceError("caught", BoomError, Null) }

RequestKeys == {Num(1), Str("1"), Num(2)}

(***************************************************************************)
(* unPartitionResults                                                      *)
(***************************************************************************)
\* requestGroups.map((ids, i) => ids.map((id, j) =>
\*     ({ order: id, result: resultGroups[i][j] })))
zippedGroups(requestGroups, resultGroups) ==
    [i \in DOMAIN requestGroups |->
        [j \in DOMAIN requestGroups[i] |->
            [order |-> requestGroups[i][j], result |-> resultGroups[i][j]]]]

RECURSIVE Flatten(_)
\* _.flatten(groups)
Flatten(groups) ==
    IF groups = <<>> THEN <<>>
    ELSE Head(groups) \o Flatten(Tail(groups))

RECURSIVE InsertByOrder(_, _)
\* r goes after every element whose order is not greater: the sort is stable
InsertByOrder(sorted, r) ==
    IF sorted = <<>> THEN <<r>>
    ELSE IF r.order < Head(sorted).order THEN <<r>> \o sorted
    ELSE <<Head(sorted)>> \o InsertByOrder(Tail(sorted), r)

\* SortByOrder with a fault: the flattened list is left as it is
SortByOrderNone(list) == list

RECURSIVE SortByOrder(_)
\* _.sortBy(list, ['order'])
SortByOrder(list) ==
    IF list = <<>> THEN <<>>
    ELSE InsertByOrder(SortByOrder(SubSeq(list, 1, Len(list) - 1)), list[Len(list)])

\* Unwrap with a fault: a CaughtResourceError is returned as it is
UnwrapNever(result) == result

\* result instanceof CaughtResourceError ? result.cause : result
Unwrap(result) ==
    IF IsCaughtResourceError(result) THEN result.cause ELSE result

unPartitionResults(requestGroups, resultGroups) ==
    LET sortedResults == SortByOrder(Flatten(zippedGroups(requestGroups, resultGroups)))
    IN  [n \in DOMAIN sortedResults |-> Unwrap(sortedResults[n].result)]

(***************************************************************************)
(* resultsDictToList                                                       *)
(***************************************************************************)
\* the BatchItemNotFoundError resultsDictToList makes for a key
DictNotFound(key, resourcePath) ==
    BatchItemNotFoundError(errorPrefix(resourcePath)
        \o " Could not find key = \"" \o String(key) \o "\" in the response dict.")

\* response[String(key)] || new BatchItemNotFoundError(...)
LookupDict(response, key, resourcePath) ==
    Or(Get(response, String(key)), DictNotFound(key, resourcePath))

resultsDictToList(response, keys, resourcePath) ==
    [i \in DOMAIN keys |-> LookupDict(response, keys[i], resourcePath)]

(***************************************************************************)
(* Inputs of unPartitionResults and resultsDictToList.                     *)
(***************************************************************************)
Foo == Obj(<< <<"foo", Str("foo")>> >>)

Bar == Obj(<< <<"bar", Str("bar")>> >>)

CaughtBoom == CaughtResourceError("caught", BoomError, Num(1))

\* what a result group may hold
ResultValues ==
    { Foo, Bar,
      BatchItemNotFoundError("not found"),
      CaughtBoom,
      CaughtResourceError("caught again", CaughtBoom, Num(1)) }

\* the groupings partitionItems produces
RequestGroupings ==
    {partitionItems(ignoreKey, items) : ignoreKey \in IgnoreKeys, items \in Batches}

GroupSize(requestGroups) == Len(Flatten(requestGroups))

\* the result groups of the shape of requestGroups that hold result[id] at
\* the place of index id
Reshape(requestGroups, result) ==
    [i \in DOMAIN requestGroups |->
        [j \in DOMAIN requestGroups[i] |-> result[requestGroups[i][j] + 1]]]

\* the names a dictionary response may have, ascending as Object keys that
\* are array indices are
DictNames == <<"1", "2", "3">>

DictValues == {Obj(<< <<"foo", Str("hello")>> >>), Num(0), Null}

RECURSIVE DictProps(_)
\* the property lists over the names from position n on
DictProps(n) ==
    IF n > Len(DictNames) THEN {<<>>}
    ELSE LET rest == DictProps(n + 1)
         IN  rest \cup {<< <<DictNames[n], v>> >> \o r : v \in DictValues, r \in rest}

Dicts == {Obj(props) : props \in {q \in DictProps(1) : Len(q) <= MaxDict}}

(***************************************************************************)
(* The helpers composed, as the generated loaders call them: partition the *)
(* batch, get one response per group, order each response by the group's   *)
(* keys, put the groups back together.                                     *)
(***************************************************************************)
\* what an element-wise transform of the items may produce
MappedValues == {Foo, Bar}

\* groups.map(ids => ids.map(id => f(items[id])))
mapGroups(f, groups, items) ==
    [i \in DOMAIN groups |->
        [j \in DOMAIN groups[i] |-> f[items[groups[i][j] + 1]]]]

\* batches whose items all carry the batch key
BatchKey == "bar_id"

LoadItems == {item \in BatchItems : NotNullish(Get(item, BatchKey))}

\* the entry of a response for the request with batch key value v: the item
\* found, or the error caught for it
EntryFor(v, kind, prop) ==
    IF kind = "item"
    THEN Obj(<< <<prop, v>>, <<"name", Str("ryan")>> >>)
    ELSE CaughtResourceError("caught", PlainError(TypeOf(v) \o " " \o String(v)), v)

Perms(S) ==
    {p \in [1..Cardinality(S) -> S] : \A m, n \in DOMAIN p : m # n => p[m] # p[n]}

\* the responses to the request of one group: entries for some of its
\* indices, in any order
ResponsesFor(items, ids, prop) ==
    UNION {
        {[n \in DOMAIN p |-> EntryFor(Get(items[p[n] + 1], BatchKey), kind[p[n]], prop)] :
            p \in Perms(S), kind \in [S -> {"item", "error"}]} :
        S \in SUBSET Range(ids)}

RECURSIVE AllResponses(_, _, _)
AllResponses(items, groups, prop) ==
    IF groups = <<>> THEN {<<>>}
    ELSE {<<r>> \o rest :
            r \in ResponsesFor(items, Head(groups), prop),
            rest \in AllResponses(items, Tail(groups), prop)}

\* the keys requested for a group
GroupKeys(items, ids, ignoreKey) ==
    [j \in DOMAIN ids |-> Get(items[ids[j] + 1], ignoreKey)]

loadBatch(items, ignoreKey, prop, responses, resourcePath) ==
    LET groups == partitionItems(ignoreKey, items)
        sorted == [g \in DOMAIN groups |->
                      sortByKeys(responses[g], GroupKeys(items, groups[g], ignoreKey),
                                 prop, resourcePath)]
    IN  IF \E g \in DOMAIN groups : sorted[g].status = "threw"
        THEN sorted[CHOOSE g \in DOMAIN groups :
                        /\ sorted[g].status = "threw"
                        /\ \A h \in 1..(g - 1) : sorted[h].status # "threw"]
        ELSE Returned(unPartitionResults(groups,
                                         [g \in DOMAIN groups |-> sorted[g].value]))

(***************************************************************************)
(* The state machine: a call of one of the exported functions, and its     *)
(* return to the caller.                                                   *)
(***************************************************************************)
Init ==
    /\ call = [fn |-> "none"]
    /\ ret = [status |-> "none"]

CallPartitionItems ==
    /\ call.fn = "none"
    /\ \E ignoreKey \in IgnoreKeys, items \in Batches :
        /\ call' = [fn |-> "partitionItems", ignoreKey |-> ignoreKey, items |-> items]
        /\ ret' = ReturnedGroups(partitionItems(ignoreKey, items))

CallSortByKeys ==
    /\ call.fn = "none"
    /\ \E items \in SeqsUpTo(ResponseItems, MaxItems),
          keys \in SeqsUpTo(RequestKeys, MaxKeys),
          prop \in Props, resourcePath \in ResourcePaths :
        /\ call' = [fn |-> "sortByKeys", items |-> items, keys |-> keys,
                    prop |-> prop, resourcePath |-> resourcePath]
        /\ ret' = sortByKeys(items, keys, prop, resourcePath)

CallUnPartitionResults ==
    /\ call.fn = "none"
    /\ \E requestGroups \in RequestGroupings :
       \E result \in [1..GroupSize(requestGroups) -> ResultValues] :
        LET resultGroups == Reshape(requestGroups, result)
        IN  /\ call' = [fn |-> "unPartitionResults",
                        requestGroups |-> requestGroups,
                        resultGroups |-> resultGroups]
            /\ ret' = Returned(unPartitionResults(requestGroups, resultGroups))

CallResultsDictToList ==
    /\ call.fn = "none"
    /\ \E response \in Dicts, keys \in SeqsUpTo(RequestKeys, MaxKeys),
          resourcePath \in ResourcePaths :
        /\ call' = [fn |-> "resultsDictToList", response |-> response,
                    keys |-> keys, resourcePath |-> resourcePath]
        /\ ret' = Returned(resultsDictToList(response, keys, resourcePath))

\* unPartitionResults(groups, groups mapped by f) for groups = partitionItems
CallRoundTrip ==
    /\ call.fn = "none"
    /\ \E ignoreKey \in IgnoreKeys, items \in Batches :
       \E f \in [Range(items) -> MappedValues] :
        LET groups == partitionItems(ignoreKey, items)
        IN  /\ call' = [fn |-> "roundTrip", ignoreKey |-> ignoreKey,
                        items |-> items, f |-> f]
            /\ ret' = Returned(unPartitionResults(groups, mapGroups(f, groups, items)))

CallLoadBatch ==
    /\ call.fn = "none"
    /\ \E items \in SeqsUpTo(LoadItems, MaxBatch), prop \in Props,
          resourcePath \in ResourcePaths :
       \E responses \in AllResponses(items, partitionItems(BatchKey, items), prop) :
        /\ call' = [fn |-> "loadBatch", ignoreKey |-> BatchKey, items |-> items,
                    prop |-> prop, responses |-> responses]
        /\ ret' = loadBatch(items, BatchKey, prop, responses, resourcePath)

\* the caller has the result; the next call starts afresh
Done ==
    /\ call.fn # "none"
    /\ call' = [fn |-> "none"]
    /\ ret' = [status |-> "none"]

Next ==
    \/ CallPartitionItems
    \/ CallSortByKeys
    \/ CallUnPartitionResults
    \/ CallResultsDictToList
    \/ CallRoundTrip
    \/ CallLoadBatch
    \/ Done

Spec == Init /\ [][Next]_vars

(***************************************************************************)
(* Properties of partitionItems.                                           *)
(***************************************************************************)
\* the places <<g, j>> of a list of groups
Places(groups) == UNION {{<<g, j>> : j \in DOMAIN groups[g]} : g \in DOMAIN groups}

\* the grouping content of an item: its attributes but the ignored one, as a
\* set, so without their order
ContentWithout(item, ignoreKey) == {p \in Range(item.props) : p[1] # ignoreKey}

SameGroup(groups, m, n) ==
    \E g \in DOMAIN groups : m \in Range(groups[g]) /\ n \in Range(groups[g])

\* C2: the groups partitionItems returns for a batch of N items are a
\* partition of 0..N-1: every index is at exactly one place of the groups,
\* nothing else is, no group is empty, and an empty batch has no groups.
C2_PartitionCoverage ==
    call.fn = "partitionItems" =>
        LET N == Len(call.items)
            groups == ret.groups
        IN  /\ ret.status = "returned"
            /\ \A n \in 0..(N - 1) :
                 Cardinality({p \in Places(groups) : groups[p[1]][p[2]] = n}) = 1
            /\ \A p \in Places(groups) : groups[p[1]][p[2]] \in 0..(N - 1)
            /\ \A g \in DOMAIN groups : groups[g] # <<>>
            /\ (N = 0 => groups = <<>>)

C2_Witness ==
    /\ call.fn = "partitionItems"
    /\ Len(call.items) = 3
    /\ ret.groups = << <<0, 2>>, <<1>> >>

\* C3: partitionItems puts two indices in the same group exactly when the
\* two items have the same attributes with the same values once the ignored
\* attribute is removed, whatever the order of the attributes and whatever
\* the ignored attribute's value or absence.
C3_PartitionGrouping ==
    call.fn = "partitionItems" =>
        \A m, n \in 0..(Len(call.items) - 1) :
            SameGroup(ret.groups, m, n)
                <=> ContentWithout(call.items[m + 1], call.ignoreKey)
                      = ContentWithout(call.items[n + 1], call.ignoreKey)

\* attributes declared in different orders, different values of the ignored
\* attribute, and an item without it, all in one group
C3_Witness ==
    /\ call.fn = "partitionItems"
    /\ call.ignoreKey = "bar_id"
    /\ call.items =
         << Obj(<< <<"bar_id", Num(2)>>, <<"include_extra_info", Bool(TRUE)>>,
                   <<"locale", Str("en")>> >>),
            Obj(<< <<"locale", Str("en")>>, <<"include_extra_info", Bool(TRUE)>>,
                   <<"bar_id", Num(3)>> >>),
            Obj(<< <<"include_extra_info", Bool(TRUE)>>, <<"locale", Str("en")>> >>) >>
    /\ ret.groups = << <<0, 1, 2>> >>

\* C9: the groups come in the order in which their content first occurs in
\* the batch (the smallest index of a group grows from each group to the
\* next, and index 0 is in the first group), and the indices of every group
\* are strictly ascending.
C9_PartitionOrdering ==
    call.fn = "partitionItems" =>
        LET groups == ret.groups
        IN  /\ \A g, h \in DOMAIN groups : g < h => groups[g][1] < groups[h][1]
            /\ \A g \in DOMAIN groups : \A j \in DOMAIN groups[g] :
                 groups[g][1] <= groups[g][j]
            /\ (call.items # <<>> => groups # <<>> /\ 0 \in Range(groups[1]))
            /\ \A g \in DOMAIN groups : \A i, j \in DOMAIN groups[g] :
                 i < j => groups[g][i] < groups[g][j]

C9_Witness ==
    /\ call.fn = "partitionItems"
    /\ ret.groups = << <<0>>, <<1, 2>> >>

(***************************************************************************)
(* Properties of sortByKeys.                                               *)
(***************************************************************************)
\* an entry of `items` that makes sortByKeys give up
FailsFast(item, prop) ==
    \/ item.type \in {"null", "undefined"}
    \/ item.type \in {"Error", "BatchItemNotFoundError"}
    \/ /\ item.type = "CaughtResourceError"
       /\ item.reorderResultsByValue.type \notin {"string", "number"}
    \/ /\ item.type = "object"
       /\ Get(item, prop).type \in {"null", "undefined"}

\* the identifier of an entry, as a string
PropIdentifier(item, prop) == String(Get(item, prop))

Identifier(item, prop) ==
    IF item.type = "CaughtResourceError"
    THEN String(item.reorderResultsByValue)
    ELSE String(Get(item, prop))

IsNotFound(v) == v.type = "BatchItemNotFoundError"

\* C4, as claimed: a call that returns gives one entry per key; at every
\* position the entry is an element of items whose item[prop], as a string,
\* is the key as a string, when there is such an element, and a
\* BatchItemNotFoundError when there is none.
C4_AsClaimed ==
    (call.fn = "sortByKeys" /\ ret.status = "returned") =>
        /\ Len(ret.value) = Len(call.keys)
        /\ \A i \in DOMAIN call.keys :
             IF \E n \in DOMAIN call.items :
                    /\ call.items[n].type = "object"
                    /\ PropIdentifier(call.items[n], call.prop) = String(call.keys[i])
             THEN /\ ret.value[i] \in Range(call.items)
                  /\ ret.value[i].type = "object"
                  /\ PropIdentifier(ret.value[i], call.prop) = String(call.keys[i])
             ELSE IsNotFound(ret.value[i])

\* C4, amended: the same with the identifier of a CaughtResourceError being
\* its reorderResultsByValue: at every position the entry is an element of
\* items whose identifier is the key (both as strings) when there is one,
\* and a BatchItemNotFoundError naming the key when there is none.
C4_SortByKeysOrder ==
    (call.fn = "sortByKeys" /\ ret.status = "returned") =>
        /\ Len(ret.value) = Len(call.keys)
        /\ \A i \in DOMAIN call.keys :
             IF \E n \in DOMAIN call.items :
                    Identifier(call.items[n], call.prop) = String(call.keys[i])
             THEN /\ ret.value[i] \in Range(call.items)
                  /\ Identifier(ret.value[i], call.prop) = String(call.keys[i])
             ELSE /\ IsNotFound(ret.value[i])
                  /\ ret.value[i].message =
                       "[dataloader-codegen :: UserService.getUsers] Response did not contain item with "
                           \o call.prop \o " = " \o String(call.keys[i])

\* the items come in another order than the keys, the key 1 finds the item
\* whose id is the string "1", and one key finds nothing
C4_Witness ==
    /\ call.fn = "sortByKeys"
    /\ call.items = << Obj(<< <<"name", Str("mark")>>, <<"id", Num(2)>> >>),
                       Obj(<< <<"id", Str("1")>>, <<"name", Str("mark")>> >>) >>
    /\ call.keys = <<Num(1), Num(2)>>
    /\ ret.status = "returned"
    /\ ret.value = <<call.items[2], call.items[1]>>

\* C5: sortByKeys throws, and returns no list, exactly when some entry of
\* items, at any position, is null or undefined, is an error other than a
\* CaughtResourceError, is a CaughtResourceError whose reorderResultsByValue
\* is neither a string nor a number, or is an item whose prop is null or
\* absent.
C5_SortByKeysFailFast ==
    call.fn = "sortByKeys" =>
        /\ ret.status \in {"threw", "returned"}
        /\ ret.status = "threw"
             <=> \E n \in DOMAIN call.items : FailsFast(call.items[n], call.prop)
        /\ (ret.status = "threw" => "value" \notin DOMAIN ret)

\* the offending entry comes last, after one that could be placed, and its
\* identifier is not among the keys
C5_Witness ==
    /\ call.fn = "sortByKeys"
    /\ Len(call.items) = 2
    /\ ~FailsFast(call.items[1], call.prop)
    /\ call.items[2] = Obj(<< <<"name", Str("ryan")>> >>)
    /\ call.keys = <<Num(2)>>
    /\ ret.status = "threw"

\* C10: entries of items with the same identifier as a string (item[prop] of
\* an item, reorderResultsByValue of a CaughtResourceError) do not make the
\* call fail, and every position whose key is that identifier holds the last
\* of them in items.
C10_SortByKeysLastWins ==
    call.fn = "sortByKeys" =>
        /\ (\A n \in DOMAIN call.items : ~FailsFast(call.items[n], call.prop))
             => ret.status = "returned"
        /\ ret.status = "returned" =>
             \A i \in DOMAIN call.keys :
                LET same == {n \in DOMAIN call.items :
                               Identifier(call.items[n], call.prop) = String(call.keys[i])}
                IN  same # {} =>
                      ret.value[i] = call.items[CHOOSE n \in same : \A m \in same : m <= n]

\* an item and a CaughtResourceError with the same identifier: the later wins
C10_Witness ==
    /\ call.fn = "sortByKeys"
    /\ call.items = << Obj(<< <<"id", Str("1")>>, <<"name", Str("mark")>> >>),
                       CaughtResourceError("caught", BoomError, Num(1)) >>
    /\ call.keys = <<Num(1), Str("1")>>
    /\ ret.status = "returned"
    /\ ret.value = <<call.items[2], call.items[2]>>

(***************************************************************************)
(* Properties of resultsDictToList.                                        *)
(***************************************************************************)
HasOwn(obj, name) == \E i \in DOMAIN obj.props : obj.props[i][1] = name

\* C6: resultsDictToList gives one entry per key; the entry is the value the
\* response stores under String(key) whenever the response has that key, and
\* is a BatchItemNotFoundError only when the response has not.
C6_ResultsDictToList ==
    call.fn = "resultsDictToList" =>
        /\ Len(ret.value) = Len(call.keys)
        /\ \A i \in DOMAIN call.keys :
             /\ HasOwn(call.response, String(call.keys[i]))
                  => ret.value[i] = Get(call.response, String(call.keys[i]))
             /\ IsNotFound(ret.value[i])
                  => ~HasOwn(call.response, String(call.keys[i]))

(***************************************************************************)
(* Properties of unPartitionResults.                                       *)
(***************************************************************************)
\* C1: for groups = partitionItems(k, xs) and result groups holding f(xs[id])
\* at the place of every index id, f giving no CaughtResourceError,
\* unPartitionResults gives the list of the length of xs that holds f(xs[n])
\* at every position n.
C1_PartitionInverse ==
    call.fn = "roundTrip" =>
        /\ ret.status = "returned"
        /\ Len(ret.value) = Len(call.items)
        /\ \A n \in DOMAIN call.items : ret.value[n] = call.f[call.items[n]]

\* two groups whose indices interleave, and a transform that tells the items
\* of the first group apart
C1_Witness ==
    /\ call.fn = "roundTrip"
    /\ partitionItems(call.ignoreKey, call.items) = << <<0, 2>>, <<1>> >>
    /\ call.f[call.items[1]] # call.f[call.items[3]]
    /\ call.f[call.items[2]] = call.f[call.items[1]]

\* the CaughtResourceErrors of a list of groups
CaughtIn(groups) ==
    {groups[p[1]][p[2]] : p \in {q \in Places(groups) :
                                   groups[q[1]][q[2]].type = "CaughtResourceError"}}

\* every place of the result groups is found at the position of its index:
\* the cause of a CaughtResourceError, any other value as it is
PlacedUnwrapped ==
    LET requestGroups == call.requestGroups
        resultGroups == call.resultGroups
    IN  /\ Len(ret.value) = Cardinality(Places(requestGroups))
        /\ \A p \in Places(requestGroups) :
             LET result == resultGroups[p[1]][p[2]]
                 out == ret.value[requestGroups[p[1]][p[2]] + 1]
             IN  IF result.type = "CaughtResourceError"
                 THEN out = result.cause
                 ELSE out = result

\* C7, as claimed: no element of the output of unPartitionResults is a
\* CaughtResourceError; every CaughtResourceError of the result groups is
\* replaced at its position by its cause, every other value is unchanged.
C7_AsClaimed ==
    call.fn = "unPartitionResults" =>
        /\ \A n \in DOMAIN ret.value : ret.value[n].type # "CaughtResourceError"
        /\ PlacedUnwrapped

\* C7, amended: every CaughtResourceError of the result groups is replaced
\* at its position by its cause, every other value is unchanged, and an
\* element of the output is a CaughtResourceError only where it is the cause
\* of a CaughtResourceError of the result groups (one level is unwrapped).
C7_UnPartitionUnwraps ==
    call.fn = "unPartitionResults" =>
        /\ PlacedUnwrapped
        /\ \A n \in DOMAIN ret.value :
             ret.value[n].type = "CaughtResourceError" =>
                \E e \in CaughtIn(call.resultGroups) : e.cause = ret.value[n]

\* a CaughtResourceError in the second group, between two values of the
\* first group, and a BatchItemNotFoundError
C7_Witness ==
    /\ call.fn = "unPartitionResults"
    /\ call.requestGroups = << <<0, 2>>, <<1>> >>
    /\ call.resultGroups = << <<Foo, BatchItemNotFoundError("not found")>>,
                              <<CaughtBoom>> >>
    /\ ret.value = <<Foo, BoomError, BatchItemNotFoundError("not found")>>

(***************************************************************************)
(* Properties of the composition.                                          *)
(***************************************************************************)
\* the value a response entry is filed under
EntryValue(entry, prop) ==
    IF entry.type = "CaughtResourceError"
    THEN entry.reorderResultsByValue
    ELSE Get(entry, prop)

\* every index holds what the response of its group has for it: the item,
\* the cause of the CaughtResourceError, or a BatchItemNotFoundError
Recovered ==
    LET groups == partitionItems(call.ignoreKey, call.items)
    IN  /\ ret.status = "returned"
        /\ Len(ret.value) = Len(call.items)
        /\ \A p \in Places(groups) :
             LET idx == groups[p[1]][p[2]]
                 v == Get(call.items[idx + 1], call.ignoreKey)
                 mine == {e \in Range(call.responses[p[1]]) :
                            EntryValue(e, call.prop) = v}
                 out == ret.value[idx + 1]
             IN  IF mine = {} THEN IsNotFound(out)
                 ELSE \E e \in mine :
                        out = (IF e.type = "CaughtResourceError" THEN e.cause ELSE e)

\* the items of every group carry different values of the ignored key
DistinctKeys ==
    LET groups == partitionItems(call.ignoreKey, call.items)
    IN  \A g \in DOMAIN groups : \A i, j \in DOMAIN groups[g] :
            i # j => Get(call.items[groups[g][i] + 1], call.ignoreKey)
                       # Get(call.items[groups[g][j] + 1], call.ignoreKey)

\* the same, once the values are converted to strings
DistinctKeyStrings ==
    LET groups == partitionItems(call.ignoreKey, call.items)
    IN  \A g \in DOMAIN groups : \A i, j \in DOMAIN groups[g] :
            i # j => String(Get(call.items[groups[g][i] + 1], call.ignoreKey))
                       # String(Get(call.items[groups[g][j] + 1], call.ignoreKey))

\* C8, as claimed: when the items of every group carry distinct values of
\* the ignored key, ordering each group's response by the group's keys and
\* putting the groups back together gives, at every index, the item or the
\* cause of the error the response had for it, or a BatchItemNotFoundError.
C8_AsClaimed ==
    (call.fn = "loadBatch" /\ DistinctKeys) => Recovered

\* C8, amended: the same when the items of every group carry values of the
\* ignored key that are distinct as strings.
C8_PositionalRecovery ==
    (call.fn = "loadBatch" /\ DistinctKeyStrings) => Recovered

\* two groups with interleaved indices; the response of the first group has
\* its entries in the reverse order, one of them a CaughtResourceError
C8_Witness ==
    /\ call.fn = "loadBatch"
    /\ DistinctKeyStrings
    /\ partitionItems(call.ignoreKey, call.items) = << <<0, 2>>, <<1>> >>
    /\ Len(call.responses[1]) = 2
    /\ call.responses[1][1].type = "CaughtResourceError"
    /\ call.responses[1][1].reorderResultsByValue
         = Get(call.items[3], call.ignoreKey)
    /\ call.responses[1][2].type = "object"
    /\ call.responses[2] = <<>>
    /\ ret.status = "returned"
    /\ ret.value = <<call.responses[1][2], ret.value[2], call.responses[1][1].cause>>
    /\ IsNotFound(ret.value[2])

=============================================================================
